---- MODULE Spec2Model ----
(***************************************************************************)
(* A model of the go-customerio client library: the track client           *)
(* (customerio.go), the customer lookups (customer.go), the custom object  *)
(* and segment readers (custom_object.go, segment reader file).            *)
(*                                                                         *)
(* Every endpoint call is one action: it draws its arguments and the       *)
(* outcome of the single HTTP round trip from small sets, and records what *)
(* was sent, what came back and what the method returned.                  *)
(*                                                                         *)
(* Go strings that the code inspects character by character (identifiers,  *)
(* credentials, tokens) are sequences of one-character strings; strings    *)
(* that are only built and compared (URLs, parameter names) are TLA+       *)
(* strings, built with Str.                                                *)
(***************************************************************************)
EXTENDS Integers, Sequences, FiniteSets, TLC

VARIABLES
    c,      \* the CustomerIO client: siteID, apiKey, URL, UserAgent
    op,     \* the endpoint method of the last call ("none" before any)
    args,   \* its arguments
    sent,   \* the HTTP requests issued during that call, in order
    resp,   \* the outcome of the round trip of that call (NoNet if none)
    exec,   \* what the request executor handed back to the method
    ret     \* what the call returned: [val, err]

vars == <<c, op, args, sent, resp, exec, ret>>

-----------------------------------------------------------------------------
(* Bounds of the model *)

\* longest site id / api key drawn for the authentication specification
MaxCredLen == 2
\* longest list of identifiers / returned records drawn for the lookups
MaxList == 2
\* longest list of customers drawn for a segment
MaxCustomers == 3

-----------------------------------------------------------------------------
(* Strings *)

RECURSIVE Str(_)
\* the Go string of a sequence of characters
Str(s) == IF s = <<>> THEN "" ELSE Head(s) \o Str(Tail(s))

RECURSIVE SeqUpTo(_, _)
\* all sequences over S of length 0..n
SeqUpTo(S, n) ==
    IF n = 0 THEN { << >> }
    ELSE LET shorter == SeqUpTo(S, n - 1)
         IN  shorter \cup {Append(q, x) : q \in shorter, x \in S}

\* unicode.IsSpace on the characters of the model
IsSpace(ch) == ch \in {" ", "\t"}

RECURSIVE TrimLeft(_)
TrimLeft(s) == IF s # <<>> /\ IsSpace(Head(s)) THEN TrimLeft(Tail(s)) ELSE s

RECURSIVE TrimRight(_)
TrimRight(s) ==
    IF s # <<>> /\ IsSpace(s[Len(s)]) THEN TrimRight(SubSeq(s, 1, Len(s) - 1)) ELSE s

\* strings.TrimSpace: leading and trailing white space removed
TrimSpace(s) == TrimRight(TrimLeft(s))

\* unicode.ToLower on the characters of the model
LowerChar(ch) ==
    CASE ch = "A" -> "a"
      [] ch = "B" -> "b"
      [] OTHER -> ch

\* strings.ToLower
ToLower(s) == [i \in 1..Len(s) |-> LowerChar(s[i])]

\* url.PathEscape on one character: "/", ";", ",", "?" and everything that is
\* not unreserved or a permitted sub-delimiter is percent-encoded
EscapeChar(ch) ==
    CASE ch = "/" -> "%2F"
      [] ch = "?" -> "%3F"
      [] ch = " " -> "%20"
      [] ch = ">" -> "%3E"
      [] ch = "\t" -> "%09"
      [] OTHER -> ch

RECURSIVE PathEscape(_)
PathEscape(s) == IF s = <<>> THEN "" ELSE EscapeChar(Head(s)) \o PathEscape(Tail(s))

-----------------------------------------------------------------------------
(* Errors and results *)

Nil == [kind |-> "nil"]

ParamError(p) == [kind |-> "ParamError", Param |-> p]

CustomerIOError(status, url, body) ==
    [kind |-> "CustomerIOError", status |-> status, url |-> url, body |-> body]

ErrCustomerNotFound == [kind |-> "ErrCustomerNotFound"]

\* errors.New(msg)
ErrorsNew(msg) == [kind |-> "error", msg |-> msg]

\* an error of json.Marshal / json.Unmarshal / strconv
JsonError == [kind |-> "json"]

\* an error of http.Client.Do or of reading the response body
TransportError(stage) == [kind |-> "transport", stage |-> stage]

\* no round trip happened
NoNet == [kind |-> "none"]

-----------------------------------------------------------------------------
(* base64 (encoding/base64) *)

\* the byte of a character of the model (ASCII)
Ord(ch) ==
    CASE ch = "a" -> 97
      [] ch = "b" -> 98
      [] ch = "A" -> 65
      [] ch = "B" -> 66
      [] ch = "s" -> 115
      [] ch = "k" -> 107
      [] ch = ":" -> 58
      [] ch = ">" -> 62
      [] ch = "?" -> 63
      [] ch = "/" -> 47
      [] ch = " " -> 32
      [] ch = "\t" -> 9

\* []byte(s)
Bytes(s) == [i \in 1..Len(s) |-> Ord(s[i])]

AlphaNum ==
    << "A", "B", "C", "D", "E", "F", "G", "H", "I", "J", "K", "L", "M",
       "N", "O", "P", "Q", "R", "S", "T", "U", "V", "W", "X", "Y", "Z",
       "a", "b", "c", "d", "e", "f", "g", "h", "i", "j", "k", "l", "m",
       "n", "o", "p", "q", "r", "s", "t", "u", "v", "w", "x", "y", "z",
       "0", "1", "2", "3", "4", "5", "6", "7", "8", "9" >>

\* base64.StdEncoding's alphabet (RFC 4648 section 4)
StdAlphabet == AlphaNum \o << "+", "/" >>

\* base64.URLEncoding's alphabet (RFC 4648 section 5)
URLAlphabet == AlphaNum \o << "-", "_" >>

RECURSIVE EncodeToString(_, _)
\* Encoding.EncodeToString with alphabet alpha and "=" padding: three bytes
\* become four characters, a last group of one or two bytes is padded
EncodeToString(alpha, b) ==
    IF Len(b) = 0 THEN << >>
    ELSE IF Len(b) = 1 THEN
        << alpha[(b[1] \div 4) + 1], alpha[((b[1] % 4) * 16) + 1], "=", "=" >>
    ELSE IF Len(b) = 2 THEN
        << alpha[(b[1] \div 4) + 1],
           alpha[((b[1] % 4) * 16 + (b[2] \div 16)) + 1],
           alpha[((b[2] % 16) * 4) + 1], "=" >>
    ELSE
        << alpha[(b[1] \div 4) + 1],
           alpha[((b[1] % 4) * 16 + (b[2] \div 16)) + 1],
           alpha[((b[2] % 16) * 4 + (b[3] \div 64)) + 1],
           alpha[(b[3] % 64) + 1] >>
        \o EncodeToString(alpha, SubSeq(b, 4, Len(b)))

\* the 6-bit value of a character in alpha, -1 if it is not in the alphabet
Sextet(alpha, ch) ==
    IF \E i \in 1..64 : alpha[i] = ch
    THEN (CHOOSE i \in 1..64 : alpha[i] = ch) - 1
    ELSE -1

\* the result of a failed decode (base64.CorruptInputError)
CorruptInput == << -1 >>

RECURSIVE DecodeString(_, _)
\* Encoding.DecodeString with alphabet alpha and "=" padding: the bytes, or
\* CorruptInput when the text is not a padded encoding over that alphabet
DecodeString(alpha, t) ==
    IF Len(t) = 0 THEN << >>
    ELSE IF Len(t) < 4 THEN CorruptInput
    ELSE
        LET s1 == Sextet(alpha, t[1])
            s2 == Sextet(alpha, t[2])
            s3 == Sextet(alpha, t[3])
            s4 == Sextet(alpha, t[4])
            rest == SubSeq(t, 5, Len(t))
        IN  IF s1 < 0 \/ s2 < 0 THEN CorruptInput
            ELSE IF t[3] = "=" THEN
                IF t[4] = "=" /\ rest = << >>
                THEN << s1 * 4 + (s2 \div 16) >>
                ELSE CorruptInput
            ELSE IF s3 < 0 THEN CorruptInput
            ELSE IF t[4] = "=" THEN
                IF rest = << >>
                THEN << s1 * 4 + (s2 \div 16), (s2 % 16) * 16 + (s3 \div 4) >>
                ELSE CorruptInput
            ELSE IF s4 < 0 THEN CorruptInput
            ELSE
                LET tail == DecodeString(alpha, rest)
                IN  IF tail = CorruptInput THEN CorruptInput
                    ELSE << s1 * 4 + (s2 \div 16),
                            (s2 % 16) * 16 + (s3 \div 4),
                            (s3 % 4) * 64 + s4 >> \o tail

\* fmt.Sprintf("%v:%v", siteID, apiKey)
UserPass(siteID, apiKey) == siteID \o << ":" >> \o apiKey

\* CustomerIO.auth: the token of the Authorization header
auth(cl) == EncodeToString(URLAlphabet, Bytes(UserPass(cl.siteID, cl.apiKey)))

BasicPrefix == << "B", "a", "s", "i", "c", " " >>

\* fmt.Sprintf("Basic %v", c.auth())
AuthorizationValue(cl) == BasicPrefix \o auth(cl)

-----------------------------------------------------------------------------
(* JSON values: what encoding/json encodes and decodes *)

JStr(x)  == [t |-> "str", s |-> x]
JNum(n)  == [t |-> "num", n |-> n]
JBool(b) == [t |-> "bool", b |-> b]
JList(l) == [t |-> "list", l |-> l]
\* m: a function from keys to JSON values
JMap(m)  == [t |-> "map", m |-> m]
JNull    == [t |-> "null"]
\* a Go value encoding/json cannot encode (a channel, a function)
Unsupported == [t |-> "unsupported"]
\* response bytes that are not JSON (an HTML error page, an empty body)
Text(x)  == [t |-> "text", s |-> x]

\* the untyped nil passed as the body of a request without one
NoBody == [t |-> "nobody"]
\* the nil []byte returned with an error
NilBytes == [t |-> "nilbytes"]
\* a method that returns only an error has no value
NoVal == [t |-> "noval"]

\* the empty Go map (a nil map ranges and encodes like one without keys)
EmptyMap == << >>

RECURSIVE Encodable(_)
\* json.Marshal succeeds on v
Encodable(v) ==
    CASE v.t = "unsupported" -> FALSE
      [] v.t = "map"  -> \A k \in DOMAIN v.m : Encodable(v.m[k])
      [] v.t = "list" -> \A i \in 1..Len(v.l) : Encodable(v.l[i])
      [] OTHER -> TRUE

\* f with key k set to v (m[k] = v on a Go map)
Put(f, k, v) == [x \in (DOMAIN f) \cup {k} |-> IF x = k THEN v ELSE f[x]]

-----------------------------------------------------------------------------
(* The round trip *)

StatusOK == 200
StatusCreated == 201
StatusNotFound == 404
StatusInternalServerError == 500

\* the statuses the service answers with in the model
Statuses == {StatusOK, StatusCreated, StatusNotFound, StatusInternalServerError}

\* http.Client.Do failed (connection, timeout, cancelled context)
DoFails == [kind |-> "do_err"]
\* the status line arrived, reading the body failed
ReadFails == [kind |-> "read_err", status |-> StatusOK]
\* a complete response
Response(status, body) == [kind |-> "resp", status |-> status, body |-> body]

\* the outcomes of a round trip whose response bodies are drawn from B
Net(B) == {DoFails, ReadFails} \cup {Response(st, b) : st \in Statuses, b \in B}

\* a call that returned before the executor was invoked
Local(body, err) ==
    [sent |-> << >>, resp |-> NoNet, called |-> FALSE, body |-> body,
     statusCode |-> 0, err |-> err]

\* the headers request() sets: User-Agent, Content-Type and Content-Length in
\* the branch with a body, Authorization in both
Header(cl, body) ==
    (IF body # NoBody
     THEN {<<"User-Agent", cl.UserAgent>>,
           <<"Content-Type", "application/json">>,
           <<"Content-Length", "len(j)">>}
     ELSE {})
    \cup {<<"Authorization", AuthorizationValue(cl)>>}

\* what the executor hands back once the round trip is over
Executed(req, net, body, statusCode, err) ==
    [sent |-> req, resp |-> net, called |-> TRUE, body |-> body,
     statusCode |-> statusCode, err |-> err]

\* a classification that accepts every 2xx status
ClassifyAny2xx(url, net) ==
    IF net.status \notin {StatusOK, StatusCreated}
    THEN [body |-> NilBytes, err |-> CustomerIOError(net.status, url, net.body)]
    ELSE [body |-> net.body, err |-> Nil]

\* the classification of a complete response by request()
Classify(url, net) ==
    IF net.status # StatusOK
    THEN [body |-> NilBytes, err |-> CustomerIOError(net.status, url, net.body)]
    ELSE [body |-> net.body, err |-> Nil]

\* CustomerIO.request: one round trip, classified by status
request(cl, method, url, body, net) ==
    IF body # NoBody /\ ~Encodable(body)
    THEN Executed(<< >>, NoNet, NilBytes, 0, JsonError)
    ELSE
        LET req == [method |-> method, url |-> url, body |-> body,
                    header |-> Header(cl, body)]
        IN  IF net.kind = "do_err"
            THEN Executed(<<req>>, net, NilBytes, 0, TransportError("do"))
            ELSE IF net.kind = "read_err"
            THEN Executed(<<req>>, net, NilBytes, 0, TransportError("read"))
            ELSE Executed(<<req>>, net, Classify(url, net).body, net.status,
                          Classify(url, net).err)

\* the executor was not invoked
NotCalled == [body |-> NilBytes, statusCode |-> 0, err |-> Nil, called |-> FALSE]

\* the state after a call of method name with arguments a, in which the
\* executor did r and the method returned (val, err)
Finish(name, a, r, val, err) ==
    /\ op = "none"
    /\ op' = name
    /\ args' = a
    /\ sent' = r.sent
    /\ resp' = r.resp
    /\ exec' = IF r.called
               THEN [body |-> r.body, statusCode |-> r.statusCode, err |-> r.err,
                     called |-> TRUE]
               ELSE NotCalled
    /\ ret' = [val |-> val, err |-> err]
    /\ UNCHANGED c

\* a method that returns the executor's error, or its own early error, as it is
Returns(name, a, r, val) == Finish(name, a, r, val, r.err)

-----------------------------------------------------------------------------
(* The track client: customerio.go *)

IdentifyCtx(customerID, attributes, net) ==
    LET r == IF customerID = << >>
             THEN Local(NilBytes, ParamError("customerID"))
             ELSE request(c, "PUT",
                          c.URL \o "/api/v1/customers/" \o PathEscape(customerID),
                          JMap(attributes), net)
    IN  Returns("IdentifyCtx",
                [customerID |-> customerID, attributes |-> attributes], r, NoVal)

TrackCtx(customerID, eventName, data, net) ==
    LET r == IF customerID = << >>
             THEN Local(NilBytes, ParamError("customerID"))
             ELSE IF eventName = ""
             THEN Local(NilBytes, ParamError("eventName"))
             ELSE request(c, "POST",
                          c.URL \o "/api/v1/customers/" \o PathEscape(customerID)
                                \o "/events",
                          JMap([name |-> JStr(eventName), data |-> JMap(data)]),
                          net)
    IN  Returns("TrackCtx",
                [customerID |-> customerID, eventName |-> eventName, data |-> data],
                r, NoVal)

TrackAnonymousCtx(anonymousID, eventName, data, net) ==
    LET payload == [name |-> JStr(eventName), data |-> JMap(data)]
        r == IF eventName = ""
             THEN Local(NilBytes, ParamError("eventName"))
             ELSE request(c, "POST", c.URL \o "/api/v1/events",
                          JMap(IF anonymousID # ""
                               THEN Put(payload, "anonymous_id", JStr(anonymousID))
                               ELSE payload),
                          net)
    IN  Returns("TrackAnonymousCtx",
                [anonymousID |-> anonymousID, eventName |-> eventName, data |-> data],
                r, NoVal)

DeleteCtx(customerID, net) ==
    LET r == IF customerID = << >>
             THEN Local(NilBytes, ParamError("customerID"))
             ELSE request(c, "DELETE",
                          c.URL \o "/api/v1/customers/" \o PathEscape(customerID),
                          NoBody, net)
    IN  Returns("DeleteCtx", [customerID |-> customerID], r, NoVal)

AddDeviceCtx(customerID, deviceID, platform, data, net) ==
    LET device == [x \in {"id", "platform"} \cup DOMAIN data |->
                      IF x \in DOMAIN data THEN data[x]
                      ELSE IF x = "id" THEN JStr(Str(deviceID))
                      ELSE JStr(platform)]
        r == IF customerID = << >>
             THEN Local(NilBytes, ParamError("customerID"))
             ELSE IF deviceID = << >>
             THEN Local(NilBytes, ParamError("deviceID"))
             ELSE IF platform = ""
             THEN Local(NilBytes, ParamError("platform"))
             ELSE request(c, "PUT",
                          c.URL \o "/api/v1/customers/" \o PathEscape(customerID)
                                \o "/devices",
                          JMap([device |-> JMap(device)]), net)
    IN  Returns("AddDeviceCtx",
                [customerID |-> customerID, deviceID |-> deviceID,
                 platform |-> platform, data |-> data], r, NoVal)

DeleteDeviceCtx(customerID, deviceID, net) ==
    LET r == IF customerID = << >>
             THEN Local(NilBytes, ParamError("customerID"))
             ELSE IF deviceID = << >>
             THEN Local(NilBytes, ParamError("deviceID"))
             ELSE request(c, "DELETE",
                          c.URL \o "/api/v1/customers/" \o PathEscape(customerID)
                                \o "/devices/" \o PathEscape(deviceID),
                          NoBody, net)
    IN  Returns("DeleteDeviceCtx",
                [customerID |-> customerID, deviceID |-> deviceID], r, NoVal)

\* the IdentifierType constants
IdentifierTypeID == "id"
IdentifierTypeEmail == "email"
IdentifierTypeCioID == "cio_id"
IdentifierTypeName == "name"

\* Identifier.kv
kv(id) == [x \in {id.Type} |-> JStr(Str(id.Value))]

\* a validation that compares the value untrimmed
validateUntrimmed(id) ==
    IF ~(id.Type = IdentifierTypeID \/ id.Type = IdentifierTypeEmail
         \/ id.Type = IdentifierTypeCioID)
    THEN ErrorsNew("invalid id type")
    ELSE IF id.Value = << >>
    THEN ErrorsNew("invalid id")
    ELSE Nil

\* Identifier.validate: nil, or the error
validate(id) ==
    IF ~(id.Type = IdentifierTypeID \/ id.Type = IdentifierTypeEmail
         \/ id.Type = IdentifierTypeCioID)
    THEN ErrorsNew("invalid id type")
    ELSE IF TrimSpace(id.Value) = << >>
    THEN ErrorsNew("invalid id")
    ELSE Nil

MergeCustomersCtx(primary, secondary, net) ==
    LET r == IF validate(primary) # Nil
             THEN Local(NilBytes, ParamError("primary"))
             ELSE IF validate(secondary) # Nil
             THEN Local(NilBytes, ParamError("secondary"))
             ELSE request(c, "POST", c.URL \o "/api/v1/merge_customers",
                          JMap([primary |-> JMap(kv(primary)),
                                secondary |-> JMap(kv(secondary))]),
                          net)
    IN  Returns("MergeCustomersCtx",
                [primary |-> primary, secondary |-> secondary], r, NoVal)

\* json.Unmarshal into a struct reads field k of object m as type ty: a
\* missing or null field leaves the zero value, another type is an error
FieldFits(m, k, ty) == k \notin DOMAIN m \/ m[k].t \in {ty, "null"}
HasField(m, k, ty) == k \in DOMAIN m /\ m[k].t = ty
StrField(m, k) == IF HasField(m, k, "str") THEN m[k].s ELSE ""
NumField(m, k) == IF HasField(m, k, "num") THEN m[k].n ELSE 0
BoolField(m, k) == IF HasField(m, k, "bool") THEN m[k].b ELSE FALSE

\* json.Unmarshal accepts the bytes as a document for a struct: an object,
\* or null (which leaves the struct as it is)
IsObject(b) == b.t = "map"
Decodable(b) == b.t \in {"map", "null"}
\* the object's members, none for null
Members(b) == IF b.t = "map" THEN b.m ELSE EmptyMap

\* RegionResponse{}
ZeroRegion == [Url |-> "", Region |-> "", EnvironmentId |-> 0]

Region(net) ==
    LET r == request(c, "GET", c.URL \o "/api/v1/accounts/region", NoBody, net)
        m == Members(r.body)
        fits == /\ Decodable(r.body)
                /\ FieldFits(m, "url", "str")
                /\ FieldFits(m, "region", "str")
                /\ FieldFits(m, "environment_id", "num")
    IN  IF r.err # Nil
        THEN Returns("Region", << >>, r, ZeroRegion)
        ELSE IF ~fits
        THEN Finish("Region", << >>, r, ZeroRegion, JsonError)
        ELSE Returns("Region", << >>, r,
                     [Url |-> StrField(m, "url"), Region |-> StrField(m, "region"),
                      EnvironmentId |-> NumField(m, "environment_id")])

\* a nil *time.Time / a nil *bool
NoTime == [t |-> "notime"]
NoFlag == [t |-> "noflag"]
\* a *time.Time by its UTC Unix seconds, a *bool
Time(unix) == [t |-> "time", unix |-> unix]
Flag(b) == [t |-> "flag", b |-> b]

\* the attributes AddOrUpdate sends, built in the order of its statements
OutgoingAtts(req) ==
    LET a0 == req.Attributes
        a1 == IF req.CreatedAt # NoTime
              THEN Put(a0, "created_at", JNum(req.CreatedAt.unix)) ELSE a0
        a2 == IF req.Email # "" THEN Put(a1, "email", JStr(req.Email)) ELSE a1
        a3 == IF req.ID # "" THEN Put(a2, "id", JStr(req.ID)) ELSE a2
    IN  IF req.Unsubscribed # NoFlag
        THEN Put(a3, "unsubscribed", JBool(req.Unsubscribed.b)) ELSE a3

AddOrUpdate(id, req, net) ==
    LET r == request(c, "PUT", c.URL \o "/api/v1/customers/" \o Str(id),
                     JMap(OutgoingAtts(req)), net)
    IN  Returns("AddOrUpdate", [id |-> id, req |-> req], r, NoVal)

\* the switch of AddCustomersToSegment's loop for one customer: what is
\* appended to identifiers
SegmentIdentifier(customer, identifier) ==
    CASE identifier = IdentifierTypeID -> << customer.ID >>
      [] identifier = IdentifierTypeEmail -> << customer.Email >>
      [] identifier = IdentifierTypeCioID -> << customer.CioID >>
      [] OTHER -> << >>

RECURSIVE SegmentIdentifiers(_, _)
\* the loop of AddCustomersToSegment
SegmentIdentifiers(customers, identifier) ==
    IF customers = << >> THEN << >>
    ELSE SegmentIdentifier(Head(customers), identifier)
         \o SegmentIdentifiers(Tail(customers), identifier)

JStrings(l) == JList([i \in 1..Len(l) |-> JStr(l[i])])

\* Returned values of different Go types are records with a field named
\* after the type: an int, a []string, a []CustomObject, a []Segment, a map
IntVal(n) == [int |-> n]
Strings(l) == [strings |-> l]
CustomObjects(l) == [objects |-> l]
Segments(l) == [segments |-> l]
Attributes(m) == [attributes |-> m]

\* what AddCustomersToSegment returns beside the error
SegmentCount(identifiers, err) == IntVal(Len(identifiers))

AddCustomersToSegment(segmentID, customers, identifier, net) ==
    LET identifiers == SegmentIdentifiers(customers, identifier)
        r == request(c, "POST",
                     c.URL \o "/api/v1/segments/" \o ToString(segmentID)
                           \o "/add_customers?id_type=" \o identifier,
                     JMap([ids |-> JStrings(identifiers)]), net)
    IN  Returns("AddCustomersToSegment",
                [segmentID |-> segmentID, customers |-> customers,
                 identifier |-> identifier],
                r, SegmentCount(identifiers, r.err))

TrackWriteBatch(actions, net) ==
    LET r == request(c, "POST", c.URL \o "/api/v2/batch",
                     JMap([batch |-> JList(actions)]), net)
    IN  Returns("TrackWriteBatch", [actions |-> actions], r, NoVal)

-----------------------------------------------------------------------------
(* The query client: customer.go *)

\* APIClient.doRequest: one round trip that hands the body and the status
\* back unclassified; url is the request path under the client's base URL
doRequest(method, url, body, net) ==
    IF body # NoBody /\ ~Encodable(body)
    THEN Executed(<< >>, NoNet, NilBytes, 0, JsonError)
    ELSE
        LET req == [method |-> method, url |-> url, body |-> body,
                    header |-> Header(c, body)]
        IN  IF net.kind = "do_err"
            THEN Executed(<<req>>, net, NilBytes, 0, TransportError("do"))
            ELSE IF net.kind = "read_err"
            THEN Executed(<<req>>, net, NilBytes, 0, TransportError("read"))
            ELSE Executed(<<req>>, net, net.body, net.status, Nil)

\* url.QueryEscape on one character
QueryEscapeChar(ch) ==
    CASE ch = " " -> "+"
      [] ch = "/" -> "%2F"
      [] ch = "?" -> "%3F"
      [] ch = ">" -> "%3E"
      [] ch = ":" -> "%3A"
      [] ch = "\t" -> "%09"
      [] OTHER -> ch

RECURSIVE QueryEscape(_)
QueryEscape(s) ==
    IF s = << >> THEN "" ELSE QueryEscapeChar(Head(s)) \o QueryEscape(Tail(s))

\* the string-valued inner "attributes" field on the wire: empty, the Go
\* quoted form of a JSON text, or a JSON text as it is
EmptyString == [q |-> "empty"]
Quoted(doc) == [q |-> "quoted", doc |-> doc]
Plain(doc) == [q |-> "plain", doc |-> doc]

\* strconv.Unquote: the unquoted text of a quoted string; "" and
\* ErrSyntax for anything that is not a quoted string
Unquote(x) ==
    IF x.q = "quoted"
    THEN [js |-> Plain(x.doc), err |-> Nil]
    ELSE [js |-> EmptyString, err |-> ErrorsNew("invalid syntax")]

IsDigit(ch) == ch \in {"0", "1", "2", "3", "4", "5", "6", "7", "8", "9"}
DigitVal(ch) == CHOOSE d \in 0..9 : ToString(d) = ch

RECURSIVE DigitsValue(_, _)
DigitsValue(s, acc) ==
    IF s = << >> THEN acc ELSE DigitsValue(Tail(s), acc * 10 + DigitVal(Head(s)))

\* strconv.Atoi on an unsigned decimal: the number, or a syntax error
Atoi(s) ==
    IF s # << >> /\ \A i \in 1..Len(s) : IsDigit(s[i])
    THEN [n |-> DigitsValue(s, 0), err |-> Nil]
    ELSE [n |-> 0, err |-> JsonError]

\* Customer{}
ZeroCustomer ==
    [Attributes |-> EmptyMap, CioID |-> "", CreatedAt |-> NoTime,
     Email |-> "", ID |-> ""]

\* the member k of object m when it is an object, no members otherwise
SubObject(m, k) == IF HasField(m, k, "map") THEN m[k].m ELSE EmptyMap

\* GetCustomer / CustomerSearch after the status check: the envelope is
\* decoded, the inner attributes unquoted and parsed, created_at converted
DecodeCustomer(body) ==
    LET top == Members(body)
        cust == SubObject(top, "customer")
        at == SubObject(cust, "attributes")
        fits == /\ Decodable(body)
                /\ FieldFits(top, "customer", "map")
                /\ FieldFits(cust, "attributes", "map")
                /\ \A k \in {"attributes", "cio_id", "created_at", "email", "id"} :
                      FieldFits(at, k, "str")
        inner == IF HasField(at, "attributes", "str")
                 THEN at["attributes"].s ELSE EmptyString
        created == IF HasField(at, "created_at", "str")
                   THEN at["created_at"].s ELSE << >>
        uq == Unquote(inner)
        parse == uq.err # Nil /\ uq.js # EmptyString
        attributes == IF parse /\ uq.js.doc.t = "map" THEN uq.js.doc.m
                      ELSE EmptyMap
        num == Atoi(created)
    IN  IF ~fits THEN [val |-> ZeroCustomer, err |-> JsonError]
        ELSE IF parse /\ ~(uq.js.doc.t \in {"map", "null"})
        THEN [val |-> ZeroCustomer, err |-> JsonError]
        ELSE IF created # << >> /\ num.err # Nil
        THEN [val |-> ZeroCustomer, err |-> num.err]
        ELSE [val |-> [Attributes |-> attributes,
                       CioID |-> StrField(at, "cio_id"),
                       CreatedAt |-> IF created # << >> THEN Time(num.n) ELSE NoTime,
                       Email |-> StrField(at, "email"),
                       ID |-> StrField(at, "id")],
              err |-> Nil]

\* a status check without the 404 branch
CustomerResultNo404(r, url) ==
    IF r.err # Nil THEN [val |-> ZeroCustomer, err |-> r.err]
    ELSE IF r.statusCode # StatusOK
    THEN [val |-> ZeroCustomer, err |-> CustomerIOError(r.statusCode, url, r.body)]
    ELSE DecodeCustomer(r.body)

\* the status check and the decode shared by GetCustomer and CustomerSearch
CustomerResult(r, url) ==
    IF r.err # Nil THEN [val |-> ZeroCustomer, err |-> r.err]
    ELSE IF r.statusCode = StatusNotFound
    THEN [val |-> ZeroCustomer, err |-> ErrCustomerNotFound]
    ELSE IF r.statusCode # StatusOK
    THEN [val |-> ZeroCustomer, err |-> CustomerIOError(r.statusCode, url, r.body)]
    ELSE DecodeCustomer(r.body)

\* fmt.Sprintf("/v1/customers/%s/attributes?%s", id, qs): id is not escaped,
\* and url.Values.Encode leaves the IdentifierType constants ([a-z_]) as
\* they are
AttributesURL(id, idType) ==
    "/v1/customers/" \o Str(id) \o "/attributes?id_type=" \o idType

GetCustomer(id, idType, net) ==
    LET url == AttributesURL(id, idType)
        r == doRequest("GET", url, NoBody, net)
        out == CustomerResult(r, url)
    IN  Finish("GetCustomer", [id |-> id, idType |-> idType], r, out.val, out.err)

CustomerSearch(id, idType, net) ==
    LET url == AttributesURL(id, idType)
        r == doRequest("GET", url, NoBody, net)
        out == CustomerResult(r, url)
    IN  Finish("CustomerSearch", [id |-> id, idType |-> idType], r, out.val, out.err)

\* json.Unmarshal of member k as a slice of structs: absent, null, or a list
\* whose elements are objects or null
ListFits(m, k) ==
    \/ FieldFits(m, k, "list") /\ ~HasField(m, k, "list")
    \/ /\ HasField(m, k, "list")
       /\ \A i \in 1..Len(m[k].l) : m[k].l[i].t \in {"map", "null"}
\* the elements' members
ListField(m, k) ==
    IF HasField(m, k, "list")
    THEN [i \in 1..Len(m[k].l) |-> Members(m[k].l[i])]
    ELSE << >>

\* the cio_id of every element of "results"
ResultCioIDs(body) ==
    LET results == ListField(Members(body), "results")
    IN  [i \in 1..Len(results) |-> StrField(results[i], "cio_id")]

LookupCustomersByEmail(email, net) ==
    LET url == "/v1/customers?email=" \o QueryEscape(email)
        r == doRequest("GET", url, NoBody, net)
        top == Members(r.body)
        fits == /\ Decodable(r.body)
                /\ ListFits(top, "results")
                /\ \A i \in 1..Len(ListField(top, "results")) :
                      FieldFits(ListField(top, "results")[i], "cio_id", "str")
        out == IF r.err # Nil THEN [val |-> Strings(<< >>), err |-> r.err]
               ELSE IF r.statusCode = StatusNotFound
               THEN [val |-> Strings(<< >>), err |-> ErrCustomerNotFound]
               ELSE IF r.statusCode # StatusOK
               THEN [val |-> Strings(<< >>),
                     err |-> CustomerIOError(r.statusCode, url, r.body)]
               ELSE IF ~fits THEN [val |-> Strings(<< >>), err |-> JsonError]
               ELSE [val |-> Strings(ResultCioIDs(r.body)), err |-> Nil]
    IN  Finish("LookupCustomersByEmail", [email |-> email], r, out.val, out.err)

\* the most identifiers LookupCustomerioIds accepts
LookupLimit == 1000

\* NewEqAttribute
NewEqAttribute(field, value) ==
    JMap([attribute |-> JMap([field |-> JStr(field), operator |-> JStr("eq"),
                              value |-> JStr(value)])])

\* the payload of LookupCustomerioIds; "or" is omitted when it is empty
SearchPayload(ids, idType) ==
    LET conditions == [i \in 1..Len(ids) |-> NewEqAttribute(idType, Str(ids[i]))]
    IN  JMap([filter |-> JMap(IF conditions = << >> THEN EmptyMap
                              ELSE [or |-> JList(conditions)])])

\* fmt.Sprint of a decoded JSON value, and of the nil a missing key gives
Sprint(m, k) ==
    IF k \notin DOMAIN m THEN "<nil>"
    ELSE CASE m[k].t = "str" -> m[k].s
           [] m[k].t = "num" -> ToString(m[k].n)
           [] OTHER -> "<nil>"

\* the key under which LookupCustomerioIds files a returned record
LookupKey(record, idType) == Sprint(record, idType)

RECURSIVE LookupGet(_, _, _)
\* lookup[key] after the loop over the returned records: the cio_id of the
\* last record filed under key, "" when there is none
LookupGet(records, idType, key) ==
    IF records = << >> THEN ""
    ELSE LET last == records[Len(records)]
         IN  IF LookupKey(last, idType) = key THEN Sprint(last, "cio_id")
             ELSE LookupGet(SubSeq(records, 1, Len(records) - 1), idType, key)

\* the key LookupCustomerioIds looks an input up under
MatchKey(id, idType) ==
    IF idType = IdentifierTypeEmail THEN Str(ToLower(id)) ELSE Str(id)

\* the result of LookupCustomerioIds for a decoded response
LookupResult(ids, idType, records) ==
    [i \in 1..Len(ids) |-> LookupGet(records, idType, MatchKey(ids[i], idType))]

LookupCustomerioIds(ids, idType, net) ==
    LET url == "/v1/customers?limit=1000"
        r == IF Len(ids) > LookupLimit
             THEN Local(NilBytes,
                        ErrorsNew("Can only lookup 1k customers at a time"))
             ELSE doRequest("POST", url, SearchPayload(ids, idType), net)
        top == Members(r.body)
        out == IF r.err # Nil THEN [val |-> Strings(<< >>), err |-> r.err]
               ELSE IF r.statusCode # StatusOK
               THEN [val |-> Strings(<< >>),
                     err |-> CustomerIOError(r.statusCode, url, r.body)]
               ELSE IF ~(Decodable(r.body) /\ ListFits(top, "identifiers"))
               THEN [val |-> Strings(<< >>), err |-> JsonError]
               ELSE [val |-> Strings(LookupResult(ids, idType,
                                     ListField(top, "identifiers"))),
                     err |-> Nil]
    IN  Finish("LookupCustomerioIds", [ids |-> ids, idType |-> idType], r, out.val, out.err)

\* a *time.Time that points at time.Time{}
ZeroTime == [t |-> "zerotime"]
\* time.Time.IsZero
IsZero(x) == x.t = "zerotime"

\* the t of Customer.MarshalJSON: the UTC Unix seconds of a CreatedAt that is
\* neither nil nor the zero time, 0 otherwise
MarshalSeconds(cust) ==
    IF cust.CreatedAt # NoTime /\ ~IsZero(cust.CreatedAt)
    THEN cust.CreatedAt.unix
    ELSE 0

\* an encoding that writes created_at whatever its value
MarshalFieldsNoOmit(cust) ==
    LET f0 == Put(EmptyMap, "created_at", JNum(MarshalSeconds(cust)))
        f1 == IF DOMAIN cust.Attributes # {}
              THEN Put(f0, "attributes", JMap(cust.Attributes)) ELSE f0
        f2 == IF cust.CioID # "" THEN Put(f1, "cio_id", JStr(cust.CioID)) ELSE f1
        f3 == IF cust.Email # "" THEN Put(f2, "email", JStr(cust.Email)) ELSE f2
    IN  IF cust.ID # "" THEN Put(f3, "id", JStr(cust.ID)) ELSE f3

\* the members encoding/json writes for the struct MarshalJSON builds: the
\* outer CreatedAt int64 shadows the alias's created_at, and every field,
\* the outer one included, is tagged omitempty
MarshalFields(cust) ==
    LET f0 == IF MarshalSeconds(cust) # 0
              THEN Put(EmptyMap, "created_at", JNum(MarshalSeconds(cust)))
              ELSE EmptyMap
        f1 == IF DOMAIN cust.Attributes # {}
              THEN Put(f0, "attributes", JMap(cust.Attributes)) ELSE f0
        f2 == IF cust.CioID # "" THEN Put(f1, "cio_id", JStr(cust.CioID)) ELSE f1
        f3 == IF cust.Email # "" THEN Put(f2, "email", JStr(cust.Email)) ELSE f2
    IN  IF cust.ID # "" THEN Put(f3, "id", JStr(cust.ID)) ELSE f3

\* Customer.MarshalJSON, as json.Marshal(customer) calls it
MarshalJSON(cust) ==
    IF Encodable(JMap(cust.Attributes))
    THEN Finish("MarshalJSON", [c |-> cust], Local(NilBytes, Nil),
                JMap(MarshalFields(cust)), Nil)
    ELSE Finish("MarshalJSON", [c |-> cust], Local(NilBytes, Nil),
                NilBytes, JsonError)

-----------------------------------------------------------------------------
(* Custom objects and segments: custom_object.go and the segment reader *)

\* json.Unmarshal into CustomObject
CustomObjectFits(m) ==
    /\ \A k \in {"id", "name", "singular_name", "slug", "singular_slug"} :
          FieldFits(m, k, "str")
    /\ FieldFits(m, "enabled", "bool")
CustomObject(m) ==
    [ID |-> StrField(m, "id"), Name |-> StrField(m, "name"),
     Enabled |-> BoolField(m, "enabled"),
     SingularName |-> StrField(m, "singular_name"),
     Slug |-> StrField(m, "slug"), SingularSlug |-> StrField(m, "singular_slug")]

\* the error url FindCustomObjects and GetCustomObjectAttributes report
ObjectsErrorURL(path) == "/v1/object_types"

ListCustomObjects(net) ==
    LET url == "/v1/object_types"
        r == doRequest("GET", url, NoBody, net)
        top == Members(r.body)
        types == ListField(top, "types")
        fits == /\ Decodable(r.body)
                /\ ListFits(top, "types")
                /\ \A i \in 1..Len(types) : CustomObjectFits(types[i])
        out == IF r.err # Nil THEN [val |-> CustomObjects(<< >>), err |-> r.err]
               ELSE IF r.statusCode # StatusOK
               THEN [val |-> CustomObjects(<< >>),
                     err |-> CustomerIOError(r.statusCode, url, r.body)]
               ELSE IF ~fits THEN [val |-> CustomObjects(<< >>), err |-> JsonError]
               ELSE [val |-> CustomObjects([i \in 1..Len(types) |->
                                              CustomObject(types[i])]),
                     err |-> Nil]
    IN  Finish("ListCustomObjects", << >>, r, out.val, out.err)

\* json.Unmarshal of member k as []string
StringsFit(m, k) ==
    \/ FieldFits(m, k, "list") /\ ~HasField(m, k, "list")
    \/ /\ HasField(m, k, "list")
       /\ \A i \in 1..Len(m[k].l) : m[k].l[i].t \in {"str", "null"}
StringsField(m, k) ==
    IF HasField(m, k, "list")
    THEN [i \in 1..Len(m[k].l) |->
             IF m[k].l[i].t = "str" THEN m[k].l[i].s ELSE ""]
    ELSE << >>

FindCustomObjects(objectTypeID, filter, net) ==
    LET url == "/v1/objects"
        r == doRequest("POST", url,
                       JMap([object_type_id |-> JStr(objectTypeID),
                             filter |-> JMap(filter)]), net)
        top == Members(r.body)
        out == IF r.err # Nil THEN [val |-> Strings(<< >>), err |-> r.err]
               ELSE IF r.statusCode # StatusOK
               THEN [val |-> Strings(<< >>),
                     err |-> CustomerIOError(r.statusCode, ObjectsErrorURL(url),
                                             r.body)]
               ELSE IF ~(Decodable(r.body) /\ StringsFit(top, "ids"))
               THEN [val |-> Strings(<< >>), err |-> JsonError]
               ELSE [val |-> Strings(StringsField(top, "ids")), err |-> Nil]
    IN  Finish("FindCustomObjects",
               [objectTypeID |-> objectTypeID, filter |-> filter],
               r, out.val, out.err)

GetCustomObjectAttributes(objectTypeID, objectID, net) ==
    LET url == "/v1/objects/" \o objectTypeID \o "/" \o objectID \o "/attributes"
        r == doRequest("GET", url, NoBody, net)
        top == Members(r.body)
        object == SubObject(top, "object")
        fits == /\ Decodable(r.body)
                /\ FieldFits(top, "object", "map")
                /\ FieldFits(object, "attributes", "map")
        out == IF r.err # Nil THEN [val |-> Attributes(EmptyMap), err |-> r.err]
               ELSE IF r.statusCode # StatusOK
               THEN [val |-> Attributes(EmptyMap),
                     err |-> CustomerIOError(r.statusCode, ObjectsErrorURL(url),
                                             r.body)]
               ELSE IF ~fits THEN [val |-> Attributes(EmptyMap), err |-> JsonError]
               ELSE [val |-> Attributes(SubObject(object, "attributes")), err |-> Nil]
    IN  Finish("GetCustomObjectAttributes",
               [objectTypeID |-> objectTypeID, objectID |-> objectID],
               r, out.val, out.err)

\* json.Unmarshal into Segment
SegmentFits(m) ==
    /\ \A k \in {"name", "description", "state", "type"} : FieldFits(m, k, "str")
    /\ FieldFits(m, "id", "num")
Segment(m) ==
    [ID |-> NumField(m, "id"), Name |-> StrField(m, "name"),
     Description |-> StrField(m, "description"),
     State |-> StrField(m, "state"), Type |-> StrField(m, "type")]

\* Segment{}
ZeroSegment == Segment(EmptyMap)

ListSegments(net) ==
    LET url == "/v1/segments"
        r == doRequest("GET", url, NoBody, net)
        top == Members(r.body)
        segments == ListField(top, "segments")
        fits == /\ Decodable(r.body)
                /\ ListFits(top, "segments")
                /\ \A i \in 1..Len(segments) : SegmentFits(segments[i])
        out == IF r.err # Nil THEN [val |-> Segments(<< >>), err |-> r.err]
               ELSE IF r.statusCode # StatusOK
               THEN [val |-> Segments(<< >>),
                     err |-> CustomerIOError(r.statusCode, url, r.body)]
               ELSE IF ~fits THEN [val |-> Segments(<< >>), err |-> JsonError]
               ELSE [val |-> Segments([i \in 1..Len(segments) |->
                                         Segment(segments[i])]),
                     err |-> Nil]
    IN  Finish("ListSegments", << >>, r, out.val, out.err)

GetSegment(id, net) ==
    LET url == "/v1/segments/" \o ToString(id)
        r == doRequest("GET", url, NoBody, net)
        top == Members(r.body)
        segment == SubObject(top, "segment")
        fits == /\ Decodable(r.body)
                /\ FieldFits(top, "segment", "map")
                /\ SegmentFits(segment)
        out == IF r.err # Nil THEN [val |-> ZeroSegment, err |-> r.err]
               ELSE IF r.statusCode # StatusOK
               THEN [val |-> ZeroSegment,
                     err |-> CustomerIOError(r.statusCode, url, r.body)]
               ELSE IF ~fits THEN [val |-> ZeroSegment, err |-> JsonError]
               ELSE [val |-> Segment(segment), err |-> Nil]
    IN  Finish("GetSegment", [id |-> id], r, out.val, out.err)

-----------------------------------------------------------------------------
(* Inputs *)

Version == "version"
DefaultUserAgent == "Customer.io Go Client/" \o Version

\* NewTrackClient(siteID, apiKey) without options
NewTrackClient(siteID, apiKey) ==
    [siteID |-> siteID, apiKey |-> apiKey, URL |-> "https://track.customer.io",
     UserAgent |-> DefaultUserAgent]

CredChars == {"a", ">", "?"}

IDs == { << >>, <<"a">>, <<"a", "/", "b">> }
EventNames == {"", "purchase"}
AnonymousIDs == {"", "anon"}
DeviceIDs == { << >>, <<"b">> }
Platforms == {"", "ios"}
DataMaps == {EmptyMap, [plan |-> JStr("pro")], [ch |-> Unsupported]}

IdentifierTypes ==
    {IdentifierTypeID, IdentifierTypeEmail, IdentifierTypeCioID, IdentifierTypeName}
IdentifierValues == { << >>, <<" ", "\t">>, <<" ", "a">> }
Identifiers == [Type : IdentifierTypes, Value : IdentifierValues]

Customer(attributes, cioID, createdAt, email, id, unsubscribed) ==
    [Attributes |-> attributes, CioID |-> cioID, CreatedAt |-> createdAt,
     Email |-> email, ID |-> id, Unsubscribed |-> unsubscribed]

Customers ==
    { Customer(EmptyMap, "", NoTime, "", "", NoFlag),
      Customer([plan |-> JStr("pro")], "c1", Time(1700), "a@b", "a", Flag(TRUE)),
      Customer([ch |-> Unsupported], "", Time(0), "", "b", NoFlag) }

SegmentCustomers ==
    { Customer(EmptyMap, "c1", NoTime, "a@b", "a", NoFlag),
      Customer(EmptyMap, "c2", NoTime, "b@b", "", NoFlag),
      Customer(EmptyMap, "", NoTime, "", "c", NoFlag) }

Batches == { << >>, << JMap([type |-> JStr("person")]) >>, << JMap([ch |-> Unsupported]) >> }

\* response bodies of the track API
TrackBodies == {Text(""), JMap(EmptyMap)}

RegionBodies ==
    { Text("<html>"),
      JNull,
      JMap([url |-> JStr("https://track-eu.customer.io"), region |-> JStr("eu"),
            environment_id |-> JNum(7)]),
      JMap([region |-> JNum(1)]) }

CustomerEnvelope(inner, created) ==
    JMap([customer |-> JMap([attributes |->
        JMap([attributes |-> JStr(inner), cio_id |-> JStr("c1"),
              created_at |-> JStr(created), email |-> JStr("a@b"),
              id |-> JStr("a")])])])

CustomerBodies ==
    { Text("<html>"),
      JMap(EmptyMap),
      JMap([customer |-> JStr("x")]),
      CustomerEnvelope(EmptyString, << >>),
      CustomerEnvelope(Quoted(JMap([plan |-> JStr("pro")])), <<"1", "7">>),
      CustomerEnvelope(Plain(JMap([plan |-> JStr("pro")])), <<"1", "7">>),
      CustomerEnvelope(Quoted(Text("oops")), <<"x">>) }

Emails == { <<"a">>, <<"A">>, <<"b">> }

EmailBodies ==
    { Text("<html>"),
      JMap(EmptyMap),
      JMap([results |-> JList(<< JMap([cio_id |-> JStr("c1")]),
                                 JMap([cio_id |-> JStr("c2")]) >>)]),
      JMap([results |-> JStr("x")]) }

\* a list of n identifiers
Many(n) == [i \in 1..n |-> <<"a">>]

LookupInputs == SeqUpTo(Emails, MaxList)
LookupTypes == {IdentifierTypeID, IdentifierTypeEmail}

\* lists at the limit and one past it
LongLookupInputs == {Many(LookupLimit), Many(LookupLimit + 1)}

\* identifier records the service returns
IdentifierRecords ==
    { JMap([id |-> JStr("a"), email |-> JStr("a"), cio_id |-> JStr("c1")]),
      JMap([id |-> JStr("A"), email |-> JStr("A"), cio_id |-> JStr("c2")]),
      JMap([cio_id |-> JStr("c3")]) }

IdentifierBodies ==
    {Text("<html>"), JMap([identifiers |-> JStr("x")])}
    \cup {JMap([identifiers |-> JList(l)]) : l \in SeqUpTo(IdentifierRecords, MaxList)}

\* the outcomes drawn for the long lists
LongLookupNet ==
    { DoFails,
      Response(StatusInternalServerError, Text("<html>")),
      Response(StatusOK, JMap([identifiers |-> JList(<< >>)])),
      Response(StatusOK,
               JMap([identifiers |->
                   JList(<< JMap([id |-> JStr("a"), email |-> JStr("a"),
                                  cio_id |-> JStr("c1")]) >>)])) }

ObjectTypeBodies ==
    { Text("<html>"),
      JMap(EmptyMap),
      JMap([types |-> JList(<< JMap([id |-> JStr("1"), name |-> JStr("Companies"),
                                     enabled |-> JBool(TRUE)]) >>)]),
      JMap([types |-> JList(<< JMap([enabled |-> JStr("yes")]) >>)]) }

ObjectTypeIDs == {"", "1"}
ObjectIDs == {"", "o1"}
Filters == {EmptyMap, [ch |-> Unsupported]}

ObjectBodies ==
    { Text("<html>"),
      JMap(EmptyMap),
      JMap([ids |-> JList(<< JStr("o1"), JStr("o2") >>)]),
      JMap([ids |-> JNum(3)]) }

ObjectAttributeBodies ==
    { Text("<html>"),
      JMap(EmptyMap),
      JMap([object |-> JMap([attributes |-> JMap([name |-> JStr("acme")])])]),
      JMap([object |-> JMap([attributes |-> JStr("x")])]) }

SegmentIDs == {0, 7}

SegmentsBodies ==
    { Text("<html>"),
      JMap(EmptyMap),
      JMap([segments |-> JList(<< JMap([id |-> JNum(7), name |-> JStr("vip")]) >>)]),
      JMap([segments |-> JList(<< JMap([id |-> JStr("7")]) >>)]) }

SegmentBodies ==
    { Text("<html>"),
      JMap(EmptyMap),
      JMap([segment |-> JMap([id |-> JNum(7), name |-> JStr("vip")])]),
      JMap([segment |-> JMap([id |-> JStr("7")])]) }

\* the customers drawn for the encoding
MarshalCustomers ==
    { Customer(a, cio, created, email, id, NoFlag) :
        a \in DataMaps, cio \in {"", "c1"},
        created \in {NoTime, ZeroTime, Time(0), Time(1700), Time(-1)},
        email \in {"", "a@b"}, id \in {"", "a"} }

-----------------------------------------------------------------------------
(* The specifications *)

Idle ==
    /\ op = "none"
    /\ args = << >>
    /\ sent = << >>
    /\ resp = NoNet
    /\ exec = NotCalled
    /\ ret = [val |-> NoVal, err |-> Nil]

Init ==
    /\ c \in {NewTrackClient(<<"s">>, <<"k">>), NewTrackClient(<< >>, <<">", ">">>)}
    /\ Idle

\* the caller takes the result; the client keeps nothing between calls
Discard ==
    /\ op # "none"
    /\ op' = "none"
    /\ args' = << >>
    /\ sent' = << >>
    /\ resp' = NoNet
    /\ exec' = NotCalled
    /\ ret' = [val |-> NoVal, err |-> Nil]
    /\ UNCHANGED c

\* a call starts when the caller holds no result
Next ==
    \/ /\ op = "none"
       /\ \E id \in IDs, a \in DataMaps, net \in Net(TrackBodies) :
             IdentifyCtx(id, a, net)
    \/ /\ op = "none"
       /\ \E id \in IDs, e \in EventNames, d \in DataMaps,
             net \in Net(TrackBodies) : TrackCtx(id, e, d, net)
    \/ /\ op = "none"
       /\ \E an \in AnonymousIDs, e \in EventNames, d \in DataMaps,
             net \in Net(TrackBodies) : TrackAnonymousCtx(an, e, d, net)
    \/ /\ op = "none"
       /\ \E id \in IDs, net \in Net(TrackBodies) : DeleteCtx(id, net)
    \/ /\ op = "none"
       /\ \E id \in IDs, dev \in DeviceIDs, p \in Platforms, d \in DataMaps,
             net \in Net(TrackBodies) : AddDeviceCtx(id, dev, p, d, net)
    \/ /\ op = "none"
       /\ \E id \in IDs, dev \in DeviceIDs, net \in Net(TrackBodies) :
             DeleteDeviceCtx(id, dev, net)
    \/ /\ op = "none"
       /\ \E p \in Identifiers, s \in Identifiers, net \in Net(TrackBodies) :
             MergeCustomersCtx(p, s, net)
    \/ /\ op = "none"
       /\ \E net \in Net(RegionBodies) : Region(net)
    \/ /\ op = "none"
       /\ \E id \in IDs, req \in Customers, net \in Net(TrackBodies) :
             AddOrUpdate(id, req, net)
    \/ /\ op = "none"
       /\ \E seg \in SegmentIDs, cs \in SeqUpTo(SegmentCustomers, MaxCustomers),
             t \in IdentifierTypes, net \in Net(TrackBodies) :
             AddCustomersToSegment(seg, cs, t, net)
    \/ /\ op = "none"
       /\ \E b \in Batches, net \in Net(TrackBodies) : TrackWriteBatch(b, net)
    \/ /\ op = "none"
       /\ \E id \in IDs, t \in IdentifierTypes, net \in Net(CustomerBodies) :
             GetCustomer(id, t, net)
    \/ /\ op = "none"
       /\ \E id \in IDs, t \in IdentifierTypes, net \in Net(CustomerBodies) :
             CustomerSearch(id, t, net)
    \/ /\ op = "none"
       /\ \E e \in Emails, net \in Net(EmailBodies) :
             LookupCustomersByEmail(e, net)
    \/ /\ op = "none"
       /\ \E ids \in LookupInputs, t \in LookupTypes,
             net \in Net(IdentifierBodies) : LookupCustomerioIds(ids, t, net)
    \/ /\ op = "none"
       /\ \E ids \in LongLookupInputs, t \in LookupTypes, net \in LongLookupNet :
             LookupCustomerioIds(ids, t, net)
    \/ /\ op = "none"
       /\ \E net \in Net(ObjectTypeBodies) : ListCustomObjects(net)
    \/ /\ op = "none"
       /\ \E ty \in ObjectTypeIDs, f \in Filters, net \in Net(ObjectBodies) :
             FindCustomObjects(ty, f, net)
    \/ /\ op = "none"
       /\ \E ty \in ObjectTypeIDs, o \in ObjectIDs,
             net \in Net(ObjectAttributeBodies) :
             GetCustomObjectAttributes(ty, o, net)
    \/ /\ op = "none"
       /\ \E net \in Net(SegmentsBodies) : ListSegments(net)
    \/ /\ op = "none"
       /\ \E id \in SegmentIDs, net \in Net(SegmentBodies) : GetSegment(id, net)
    \/ Discard

Spec == Init /\ [][Next]_vars

\* the authentication header over every pair of credentials
InitAuth ==
    /\ c \in {NewTrackClient(s, k) : s, k \in SeqUpTo(CredChars, MaxCredLen)}
    /\ Idle

NextAuth ==
    \/ /\ op = "none"
       /\ \E id \in IDs, net \in Net(TrackBodies) : DeleteCtx(id, net)
    \/ /\ op = "none"
       /\ \E net \in Net(RegionBodies) : Region(net)
    \/ Discard

SpecAuth == InitAuth /\ [][NextAuth]_vars

\* the two places that encode a Customer
NextMarshal ==
    \/ /\ op = "none"
       /\ \E cust \in MarshalCustomers : MarshalJSON(cust)
    \/ /\ op = "none"
       /\ \E id \in IDs, req \in Customers, net \in Net(TrackBodies) :
             AddOrUpdate(id, req, net)
    \/ Discard

SpecMarshal == Init /\ [][NextMarshal]_vars

-----------------------------------------------------------------------------
(* Properties *)

\* the methods built on CustomerIO.request
TrackOps ==
    {"IdentifyCtx", "TrackCtx", "TrackAnonymousCtx", "DeleteCtx", "AddDeviceCtx",
     "DeleteDeviceCtx", "MergeCustomersCtx", "Region", "AddOrUpdate",
     "AddCustomersToSegment", "TrackWriteBatch"}

\* the required string parameters of the last call that were passed empty
MissingParams ==
    (IF /\ op \in {"IdentifyCtx", "TrackCtx", "DeleteCtx", "AddDeviceCtx",
                   "DeleteDeviceCtx"}
        /\ args.customerID = << >>
     THEN {"customerID"} ELSE {})
    \cup (IF op \in {"TrackCtx", "TrackAnonymousCtx"} /\ args.eventName = ""
          THEN {"eventName"} ELSE {})
    \cup (IF op \in {"AddDeviceCtx", "DeleteDeviceCtx"} /\ args.deviceID = << >>
          THEN {"deviceID"} ELSE {})
    \cup (IF op = "AddDeviceCtx" /\ args.platform = ""
          THEN {"platform"} ELSE {})
    \cup (IF op \in {"AddOrUpdate", "GetCustomer", "CustomerSearch"}
             /\ args.id = << >>
          THEN {"id"} ELSE {})

\* C1: a call with an empty required string parameter returns a ParamError
\* naming such a parameter, and issues no request
C1_EmptyParamRejected ==
    MissingParams # {} =>
        /\ ret.err.kind = "ParamError"
        /\ ret.err.Param \in MissingParams
        /\ sent = << >>

\* C2: on the methods built on request(), a 200 response yields the raw body
\* and no API error, any other status yields a CustomerIOError carrying that
\* status and that body, after exactly one request
C2_StatusClassification ==
    (op \in TrackOps /\ resp.kind = "resp") =>
        /\ Len(sent) = 1
        /\ resp.status = StatusOK =>
              /\ exec.body = resp.body
              /\ exec.err = Nil
              /\ ret.err.kind # "CustomerIOError"
              /\ op # "Region" => ret.err = Nil
        /\ resp.status # StatusOK =>
              /\ ret.err.kind = "CustomerIOError"
              /\ ret.err.status = resp.status
              /\ ret.err.body = resp.body
              /\ exec.body = NilBytes

\* a 201 answer to IdentifyCtx came back as a CustomerIOError
C2_Witness ==
    /\ op = "IdentifyCtx"
    /\ resp.kind = "resp"
    /\ resp.status = StatusCreated
    /\ ret.err.kind = "CustomerIOError"
    /\ Len(sent) = 1

\* C3: the customer lookup answers 404 with the sentinel, any other status
\* but 200 with a CustomerIOError, and 200 with neither
C3_NotFoundSentinel ==
    (op \in {"GetCustomer", "CustomerSearch"} /\ resp.kind = "resp") =>
        /\ resp.status = StatusNotFound => ret.err = ErrCustomerNotFound
        /\ resp.status \notin {StatusOK, StatusNotFound} =>
              /\ ret.err.kind = "CustomerIOError"
              /\ ret.err.status = resp.status
        /\ resp.status = StatusOK =>
              ret.err.kind \notin {"CustomerIOError", "ErrCustomerNotFound"}

\* GetCustomer got a 404 and returned the sentinel
C3_Witness ==
    /\ op = "GetCustomer"
    /\ resp.kind = "resp"
    /\ resp.status = StatusNotFound
    /\ ret.err = ErrCustomerNotFound

\* the identifier records of the response of the last call
ReturnedRecords == ListField(Members(resp.body), "identifiers")

\* the returned records that are the record of input id: the same identifier,
\* for an email address whatever the letter case
MatchingRecords(id, idType) ==
    {k \in 1..Len(ReturnedRecords) :
        /\ idType \in DOMAIN ReturnedRecords[k]
        /\ ReturnedRecords[k][idType].t = "str"
        /\ LET key == ReturnedRecords[k][idType].s
           IN  IF idType = IdentifierTypeEmail
               THEN \E e \in Emails : Str(e) = key /\ ToLower(e) = ToLower(id)
               ELSE key = Str(id)}

\* the cio_id of the returned records numbered in K
CioIDs(K) == {StrField(ReturnedRecords[k], "cio_id") : k \in K}

\* the last call is a lookup the service answered with a decodable 200
LookupAnswered ==
    /\ op = "LookupCustomerioIds"
    /\ Len(args.ids) <= LookupLimit
    /\ resp.kind = "resp"
    /\ resp.status = StatusOK
    /\ ret.err = Nil

\* C4: more than 1000 identifiers fail without a request; otherwise a 200
\* answer gives a list as long as the input where entry i is the cio_id of
\* the returned record matching ids[i], "" when no record matches
C4_LookupResult ==
    /\ (op = "LookupCustomerioIds" /\ Len(args.ids) > LookupLimit) =>
          ret.err # Nil /\ sent = << >>
    /\ LookupAnswered =>
          /\ Len(ret.val.strings) = Len(args.ids)
          /\ \A i \in 1..Len(args.ids) :
                LET K == MatchingRecords(args.ids[i], args.idType)
                IN  IF K = {} THEN ret.val.strings[i] = ""
                    ELSE ret.val.strings[i] \in CioIDs(K)

\* the values of the "or" filter of the request of the last call
FilterValues ==
    LET filter == sent[1].body.m["filter"].m
    IN  IF "or" \in DOMAIN filter
        THEN [i \in 1..Len(filter["or"].l) |->
                 filter["or"].l[i].m["attribute"].m["value"].s]
        ELSE << >>

\* C5: with idType = email, inputs that differ only in letter case receive
\* the same cio_id, the one of the returned record for that address, and the
\* request carries every input as it was given
C5_EmailCaseInsensitive ==
    (LookupAnswered /\ args.idType = IdentifierTypeEmail) =>
        /\ \A i, j \in 1..Len(args.ids) :
              ToLower(args.ids[i]) = ToLower(args.ids[j]) =>
                  ret.val.strings[i] = ret.val.strings[j]
        /\ \A i \in 1..Len(args.ids) :
              LET K == MatchingRecords(args.ids[i], args.idType)
              IN  K # {} => ret.val.strings[i] \in CioIDs(K)
        /\ FilterValues = [i \in 1..Len(args.ids) |-> Str(args.ids[i])]

\* the identifier of a customer selected by an identifier type
Selected(customer, identifier) ==
    CASE identifier = IdentifierTypeID -> customer.ID
      [] identifier = IdentifierTypeEmail -> customer.Email
      [] identifier = IdentifierTypeCioID -> customer.CioID

RECURSIVE NonEmptySelected(_, _)
\* the non-empty selected identifiers of a list of customers, in order
NonEmptySelected(customers, identifier) ==
    IF customers = << >> THEN << >>
    ELSE (IF Selected(Head(customers), identifier) = "" THEN << >>
          ELSE << Selected(Head(customers), identifier) >>)
         \o NonEmptySelected(Tail(customers), identifier)

\* the "ids" list of the request of the last call
SubmittedIDs ==
    [i \in 1..Len(sent[1].body.m["ids"].l) |-> sent[1].body.m["ids"].l[i].s]

\* C6: AddCustomersToSegment submits the non-empty selected identifiers of
\* the customers, in input order, and returns how many it submitted
C6_SegmentSkipsEmpty ==
    (/\ op = "AddCustomersToSegment"
     /\ args.identifier \in
            {IdentifierTypeID, IdentifierTypeEmail, IdentifierTypeCioID}
     /\ sent # << >>) =>
        /\ SubmittedIDs = NonEmptySelected(args.customers, args.identifier)
        /\ \A i \in 1..Len(SubmittedIDs) : SubmittedIDs[i] # ""
        /\ ret.val = IntVal(Len(SubmittedIDs))

\* an identifier of a known type whose value holds something but white space
ValidIdentifier(id) ==
    /\ id.Type \in {"id", "email", "cio_id"}
    /\ \E i \in 1..Len(id.Value) : id.Value[i] \notin {" ", "\t"}

\* C7: MergeCustomersCtx answers an invalid primary with ParamError{primary},
\* a valid primary and an invalid secondary with ParamError{secondary}, both
\* without a request; a request goes out only when both are valid
C7_MergeValidation ==
    op = "MergeCustomersCtx" =>
        /\ ~ValidIdentifier(args.primary) =>
              ret.err = ParamError("primary") /\ sent = << >>
        /\ (ValidIdentifier(args.primary) /\ ~ValidIdentifier(args.secondary)) =>
              ret.err = ParamError("secondary") /\ sent = << >>
        /\ sent # << >> =>
              ValidIdentifier(args.primary) /\ ValidIdentifier(args.secondary)

\* a primary of a known type whose value is white space only was refused
C7_Witness ==
    /\ op = "MergeCustomersCtx"
    /\ args.primary.Type = IdentifierTypeEmail
    /\ args.primary.Value = <<" ", "\t">>
    /\ ret.err = ParamError("primary")
    /\ sent = << >>

\* the zero value of what a method returns beside its error
ZeroValue(name) ==
    CASE name = "Region" -> ZeroRegion
      [] name = "AddCustomersToSegment" -> IntVal(0)
      [] name \in {"GetCustomer", "CustomerSearch"} -> ZeroCustomer
      [] name \in {"LookupCustomersByEmail", "LookupCustomerioIds",
                   "FindCustomObjects"} -> Strings(<< >>)
      [] name = "ListCustomObjects" -> CustomObjects(<< >>)
      [] name = "ListSegments" -> Segments(<< >>)
      [] name = "GetCustomObjectAttributes" -> Attributes(EmptyMap)
      [] name = "GetSegment" -> ZeroSegment
      [] OTHER -> NoVal

\* C8: a call that returns an error returns the zero value beside it
C8_NoPartialSuccess ==
    (op # "none" /\ ret.err # Nil) => ret.val = ZeroValue(op)

\* C9: a CustomerIOError carries the URL of the request the call sent, with
\* the status and the body of the response
C9_ErrorCarriesRequestURL ==
    ret.err.kind = "CustomerIOError" =>
        /\ Len(sent) = 1
        /\ ret.err.url = sent[1].url
        /\ ret.err.status = resp.status
        /\ ret.err.body = resp.body

\* the token after "Basic " in the Authorization header of request r
BasicToken(r) ==
    LET h == CHOOSE x \in r.header : x[1] = "Authorization"
    IN  SubSeq(h[2], Len(BasicPrefix) + 1, Len(h[2]))

\* C10: the token of every request is the standard base64 encoding of
\* "<site_id>:<key>": decoded with the standard alphabet it gives those bytes
C10_BasicTokenDecodes ==
    \A i \in 1..Len(sent) :
        /\ \E x \in sent[i].header :
              x[1] = "Authorization" /\ SubSeq(x[2], 1, Len(BasicPrefix)) = BasicPrefix
        /\ DecodeString(StdAlphabet, BasicToken(sent[i]))
              = Bytes(UserPass(c.siteID, c.apiKey))

\* the last call is a customer lookup answered 200 with the attribute envelope
EnvelopeAnswered ==
    /\ op \in {"GetCustomer", "CustomerSearch"}
    /\ resp.kind = "resp"
    /\ resp.status = StatusOK
    /\ HasField(Members(resp.body), "customer", "map")
    /\ HasField(SubObject(Members(resp.body), "customer"), "attributes", "map")
    /\ HasField(SubObject(SubObject(Members(resp.body), "customer"), "attributes"),
                "attributes", "str")

\* the inner string-valued attributes field of that response
InnerAttributes ==
    SubObject(SubObject(Members(resp.body), "customer"), "attributes")["attributes"].s

\* C11: on a 200 response an empty inner attributes field gives an empty
\* attribute map and no error; an inner field that holds a string-encoded
\* JSON object gives an attribute map with every member of that object
C11_AttributesDoubleDecode ==
    EnvelopeAnswered =>
        /\ InnerAttributes.q = "empty" =>
              /\ ret.err = Nil
              /\ DOMAIN ret.val.Attributes = {}
        /\ (InnerAttributes.q # "empty" /\ InnerAttributes.doc.t = "map") =>
              /\ ret.err = Nil
              /\ \A k \in DOMAIN InnerAttributes.doc.m :
                    /\ k \in DOMAIN ret.val.Attributes
                    /\ ret.val.Attributes[k] = InnerAttributes.doc.m[k]

\* the JSON object of the last encoding of a Customer: what MarshalJSON
\* returned, or the body AddOrUpdate sent
EncodedCustomer ==
    IF op = "MarshalJSON" THEN ret.val.m ELSE sent[1].body.m

\* the Customer that was encoded
EncodedFrom == IF op = "MarshalJSON" THEN args.c ELSE args.req

\* a Customer was encoded by the last call
CustomerEncoded ==
    \/ op = "MarshalJSON" /\ ret.err = Nil
    \/ op = "AddOrUpdate" /\ sent # << >>

\* CreatedAt points at a time other than the zero time
CreatedAtSet == EncodedFrom.CreatedAt.t = "time"

HeaderNames(r) == {x[1] : x \in r.header}

\* C13: every request the executor builds carries Authorization and the
\* configured User-Agent; Content-Type: application/json and Content-Length
\* are present exactly when the request has a body
C13_StandardHeaders ==
    op \in TrackOps =>
        \A i \in 1..Len(sent) :
            /\ "Authorization" \in HeaderNames(sent[i])
            /\ <<"User-Agent", c.UserAgent>> \in sent[i].header
            /\ <<"Content-Type", "application/json">> \in sent[i].header
                  <=> sent[i].body # NoBody
            /\ "Content-Length" \in HeaderNames(sent[i])
                  <=> sent[i].body # NoBody

====
